---- MODULE Spec2Model ----
\* codegate: the recording engine of src/codegate/db/connection.py
\* (DbCodeGate, DbRecorder, DbReader, init_db_sync) and the package import of
\* scripts/import_packages.py (PackageImporter).
\*
\* The operations are coroutines: each is a sequence of steps that ends at an
\* await, and the steps of coroutines on the same loop interleave.  The model
\* follows one caller through every operation, step by step, and lets a
\* second coroutine of the same loop run record_request,
\* record_output_non_stream, init_db and init_db_sync between any two of its
\* steps.
EXTENDS Naturals, Integers, Sequences, FiniteSets, TLC

\* ------------------------------------------------------------------ bounds
\* ids uuid.uuid4() hands out (rows the store can get)
MaxIds == 2
\* chunks of an upstream sequence
MaxChunks == 2
\* alerts of a batch
MaxAlerts == 2

\* ------------------------------------------------------------------ schema
TblPrompts == "prompts"
TblOutputs == "outputs"
TblAlerts == "alerts"
\* schema.sql: one CREATE TABLE per table, in this order; id is the key of
\* each table
Schema == <<TblPrompts, TblOutputs, TblAlerts>>
NumStatements == Len(Schema)
Statements == 1..NumStatements

\* Python's None
None == [none |-> TRUE]

VARIABLES
  dbExists,       \* self._db_path.is_file()
  tables,         \* the tables the store has
  ddlRuns,        \* per DDL statement, how often it was executed on the
                  \* store file there is
  recorder,       \* a DbRecorder instance has been constructed
  prompts,        \* rows of table prompts
  outputs,        \* rows of table outputs
  alerts,         \* rows of table alerts
  nextId,         \* the next value uuid.uuid4() yields
  dbPath,         \* self._db_path
  leases,         \* the connections checked out of the engine's pool, each
                  \* with the coroutine that holds it
  pc,             \* where the caller's operation stands ("idle": none,
                  \* "done": it has finished and its caller holds the result)
  result,         \* what the finished operation gave its caller
  attempts,       \* _insert_pydantic_model calls made by the operation
  wrote,          \* the rows the operation has written
  wiped,          \* whether another coroutine has unlinked the store file
                  \* since the operation started: "no", "in_flight" (before
                  \* the operation ended) or "returned" (only after it)
  initCall,       \* the bootstrap in progress: who runs it, whether the store
                  \* existed when it started, the next DDL statement, the
                  \* number of DDL statements executed, whether it failed,
                  \* the sqlite_path the constructor was given and whether
                  \* no other init_db call has been in flight beside it
  helper,         \* the _insert_pydantic_model call in progress: the
                  \* operation that made it, its table, its model and the
                  \* value it is about to return
  argRequest,     \* record_request: its arguments
  argPrompt,      \* record_output_stream / _non_stream: the prompt argument
  streamIn,       \* record_output_stream: the upstream sequence as given
  upstream,       \* record_output_stream: chunks model_response still holds
  emitted,        \* record_output_stream: chunks the caller has received
  output_chunks,  \* record_output_stream: the local buffer
  batch,          \* record_alerts: the alerts argument
  tasks,          \* record_alerts: the TaskGroup's tasks
  group,          \* record_alerts: whether a task of the TaskGroup has failed,
                  \* whether the group has reacted, and the tasks that ran
                  \* in between
  readConn,       \* DbReader: the read in progress and its connection
  readCursor,     \* DbReader: the rows of the query's result set not yet
                  \* fetched
  readRows,       \* DbReader: the rows the comprehension has fetched
  other,          \* the second coroutine: its operation, where it stands,
                  \* the row it inserts and the DDL statement it is at
  jsonFiles,      \* PackageImporter: the three .jsonl files and their lines
  collection,     \* PackageImporter: the objects of the Package collection
  backup,         \* PackageImporter: the backup restore_backup restores
  backup_target,  \* PackageImporter: BACKUP_TARGET_ID names that backup
  packages_dict,  \* PackageImporter.add_data: the local packages_dict
  packages_to_insert, \* PackageImporter.add_data: the local of that name
  importPc,       \* PackageImporter.add_data: where the call stands
  json_file,      \* PackageImporter.add_data: the file of the loop of line 98
  lineNo,         \* PackageImporter.add_data: the line of the loop of line 102
  take_backup_flag, \* PackageImporter: the flag of the run_import in progress
  runs,           \* PackageImporter: add_data calls that have ended
  settled,        \* the last add_data call returned and no restore has
                  \* replaced the collection since
  process,        \* PackageImporter.process_package: the call in progress
  processed       \* PackageImporter.process_package: calls made

fileVars == <<dbExists, tables, ddlRuns>>
storeVars == <<prompts, outputs, alerts>>
streamVars == <<argPrompt, streamIn, upstream, emitted, output_chunks>>
alertVars == <<batch, tasks, group>>
readVars == <<readConn, readCursor, readRows>>
\* the locals of the caller's operation other than pc and result
callVars == <<attempts, wrote, wiped, initCall, helper, argRequest, streamVars,
              alertVars, readVars>>
importVars == <<jsonFiles, collection, backup, backup_target, packages_dict,
                packages_to_insert,
                importPc, json_file, lineNo, take_backup_flag, runs, settled,
                process, processed>>
dbVars == <<fileVars, recorder, storeVars, nextId, dbPath, leases, pc, result,
            callVars, other>>
vars == <<dbVars, importVars>>

\* ------------------------------------------------------------ the store path
\* sqlite_path is None or empty (line 29)
NoPath == ""
\* <repository>/codegate.db (lines 31, 37)
DefaultPath == "codegate.db"
CustomPath == "custom.db"
PathArgs == {NoPath, CustomPath}

\* DbCodeGate.__init__, lines 29-37: lines 29-33 choose the path, lines 36-37
\* assign the default path again
DbPath(sqlite_path) ==
  LET chosen == IF sqlite_path = NoPath THEN DefaultPath ELSE sqlite_path
      reassigned == DefaultPath
  IN reassigned

NoResult == [op |-> "none", outcome |-> "none", value |-> None]
NoInit == [by |-> "none", onExisting |-> FALSE, next |-> 1, ddl |-> 0,
           failed |-> FALSE, sqlite_path |-> NoPath, alone |-> TRUE]
NoHelper == [op |-> "none", tbl |-> "none", model |-> None, ret |-> None]
NoOther == [pc |-> "idle", op |-> "none", row |-> None, n |-> 0]
NoRead == [op |-> "none", state |-> "none", stale |-> FALSE, had |-> FALSE]
NoGroup == [state |-> "running", ran |-> {}]

DbInit ==
  /\ dbExists = FALSE
  /\ tables = {}
  /\ ddlRuns = [s \in Statements |-> 0]
  /\ recorder = FALSE
  /\ prompts = {}
  /\ outputs = {}
  /\ alerts = {}
  /\ nextId = 1
  /\ dbPath = DefaultPath
  /\ leases = {}
  /\ pc = "idle"
  /\ result = NoResult
  /\ attempts = 0
  /\ wrote = {}
  /\ wiped = "no"
  /\ initCall = NoInit
  /\ helper = NoHelper
  /\ argRequest = None
  /\ argPrompt = None
  /\ streamIn = <<>>
  /\ upstream = <<>>
  /\ emitted = <<>>
  /\ output_chunks = <<>>
  /\ batch = <<>>
  /\ tasks = <<>>
  /\ group = NoGroup
  /\ readConn = NoRead
  /\ readCursor = {}
  /\ readRows = {}
  /\ other = NoOther

\* no importer runs beside the recorder
NoImport ==
  /\ jsonFiles = <<>>
  /\ collection = {}
  /\ backup = [exists |-> FALSE, objects |-> {}]
  /\ backup_target = FALSE
  /\ packages_dict = <<>>
  /\ packages_to_insert = <<>>
  /\ importPc = "idle"
  /\ json_file = 0
  /\ lineNo = 0
  /\ take_backup_flag = FALSE
  /\ runs = 0
  /\ settled = FALSE
  /\ process = [pc |-> "idle"]
  /\ processed = 0

Init == DbInit /\ NoImport

Raised(o) == [op |-> o, outcome |-> "raised", value |-> None]
Returned(o, v) ==
  [op |-> o, outcome |-> (IF v = None THEN "none" ELSE "record"), value |-> v]
Ended(o, how) == [op |-> o, outcome |-> how, value |-> None]

\* -------------------------------------------------- the engine's connections
\* async with engine.begin() as conn (lines 79, 94): entering the block
\* checks a connection out of the engine's pool, one that no other block
\* holds; leaving it, by return, exception or cancellation, gives it back.
\* Holders: the caller's own init_db or helper call (Caller), the second
\* coroutine (Other) and the tasks 1..N of record_alerts.  A connection
\* opened before the store file was unlinked is stale: it is on the file
\* that is gone.
Caller == 0
Other == 0 - 1
CheckoutShared(leased) ==
  IF leased = {} THEN 1 ELSE (CHOOSE l \in leased : TRUE).conn
Checkout(leased) ==
  CHOOSE c \in 1..(Cardinality(leased) + 1) :
    /\ \A l \in leased : l.conn # c
    /\ \A d \in 1..(c - 1) : \E l \in leased : l.conn = d
Acquire(leased, i) ==
  leased \cup {[conn |-> Checkout(leased), task |-> i, stale |-> FALSE]}
Release(leased, ended) == {l \in leased : l.task \notin ended}
Stale(i) == \E l \in leases : l.task = i /\ l.stale

\* ------------------------------------------------------ schema bootstrap
does_db_exist == dbExists

\* init_db line 62: the early return
InitDbSkipsAlways(exists) == FALSE
InitDbSkips(exists) == exists

\* DbRecorder.__init__ line 56: whether the constructor calls init_db
ConstructorInits(exists) == ~exists

\* what a bootstrap leaves alone
notBoot == <<nextId, attempts, wrote, wiped, helper, argRequest, streamVars,
             alertVars, readVars, importVars>>

\* a coroutine of the loop is in flight, so the loop is running
LoopRunning == other.pc # "idle"

InitSteps == {"init_begin", "init_exec", "init_exit", "init_dispose"}
InInit == pc \in InitSteps
OtherInInit == other.pc \in InitSteps

\* init_db has ended, by return or by exception.  The instance init_db_sync
\* builds is local to it.  Who ran init_db (by):
\*   ctor       DbRecorder.__init__, asyncio.run(self.init_db()) at line 58
\*   call       await recorder.init_db() on an existing instance
\*   sync_ctor  the DbRecorder() of init_db_sync, line 244
\*   sync_init  the asyncio.run(db.init_db()) of init_db_sync, line 249
InitDone(by, outcome) ==
  CASE by = "ctor" ->
         /\ pc' = "done"
         /\ recorder' = (recorder \/ outcome # "raised")
         /\ result' = Ended("init_db", outcome)
    [] by = "call" ->
         /\ pc' = "done"
         /\ recorder' = recorder
         /\ result' = Ended("init_db", outcome)
    [] by = "sync_ctor" ->
         IF outcome = "raised"
           THEN /\ pc' = "done"
                /\ recorder' = recorder
                /\ result' = Ended("init_db_sync", outcome)
           ELSE /\ pc' = "sync_unlink"
                /\ recorder' = recorder
                /\ result' = NoResult
    [] by = "sync_init" ->
         /\ pc' = "done"
         /\ recorder' = recorder
         /\ result' = Ended("init_db_sync", outcome)

\* init_db is entered: lines 62-75, which run without an await.  exists: the
\* store file is there; schemaFile: schema.sql is there.  alone: no other
\* init_db call is in flight.
EnterInitDb(by, exists, schemaFile, sqlite_path) ==
  /\ initCall' = [by |-> by, onExisting |-> exists, next |-> 1, ddl |-> 0,
                  failed |-> FALSE, sqlite_path |-> sqlite_path,
                  alone |-> ~OtherInInit]
  /\ IF InitDbSkips(exists)
       THEN InitDone(by, "skipped")
     ELSE IF ~schemaFile
       THEN InitDone(by, "raised")
     ELSE /\ pc' = "init_begin"
          /\ recorder' = recorder
          /\ result' = NoResult

\* the constructor does not call init_db (line 56 is false)
ConstructorSkips(by, sqlite_path) ==
  /\ initCall' = [by |-> by, onExisting |-> TRUE, next |-> 1, ddl |-> 0,
                  failed |-> FALSE, sqlite_path |-> sqlite_path,
                  alone |-> TRUE]
  /\ InitDone(by, "skipped")

\* DbRecorder(sqlite_path): lines 53-58.  asyncio.run (line 58) raises
\* RuntimeError when called while a loop is running: from a coroutine
\* (inLoop), as it is whenever the second coroutine is in flight.
DbRecorderInit ==
  /\ pc = "idle"
  /\ \E sqlite_path \in PathArgs,
        inLoop \in (IF LoopRunning THEN {TRUE} ELSE BOOLEAN) :
       /\ dbPath' = DbPath(sqlite_path)
       /\ IF ~ConstructorInits(does_db_exist)
            THEN ConstructorSkips("ctor", sqlite_path)
          ELSE IF inLoop
            THEN /\ initCall' = [NoInit EXCEPT !.by = "ctor",
                                               !.sqlite_path = sqlite_path]
                 /\ InitDone("ctor", "raised")
          ELSE \E schemaFile \in BOOLEAN :
                 EnterInitDb("ctor", does_db_exist, schemaFile, sqlite_path)
  /\ UNCHANGED <<fileVars, storeVars, leases, other, notBoot>>

\* await recorder.init_db(): lines 60-86 called on an existing instance
InitDbCall ==
  /\ pc = "idle"
  /\ recorder
  /\ \E schemaFile \in BOOLEAN :
       EnterInitDb("call", does_db_exist, schemaFile, NoPath)
  /\ UNCHANGED <<fileVars, storeVars, dbPath, leases, other, notBoot>>

\* lines 247-248, db._db_path.unlink(): the store file goes, and with it
\* every table and row; the connections that are open stay on the file that
\* is gone
StoreUnlink ==
  /\ dbExists' = FALSE
  /\ tables' = {}
  /\ ddlRuns' = [s \in Statements |-> 0]
  /\ prompts' = {}
  /\ outputs' = {}
  /\ alerts' = {}
  /\ leases' = {[l EXCEPT !.stale = TRUE] : l \in leases}

\* init_db_sync() outside a loop, lines 247-249: the store file is unlinked
\* when it is there; then asyncio.run(db.init_db()) enters init_db
SyncUnlink ==
  /\ pc = "sync_unlink"
  /\ IF does_db_exist
       THEN StoreUnlink
       ELSE UNCHANGED <<fileVars, storeVars, leases>>
  /\ \E schemaFile \in BOOLEAN :
       EnterInitDb("sync_init", dbExists', schemaFile, NoPath)
  /\ UNCHANGED <<dbPath, other, notBoot>>

\* the caller is inside asyncio.run (lines 58, 249) or between the
\* statements of init_db_sync: the thread runs nothing else
Blocking ==
  \/ pc = "sync_unlink"
  \/ InInit /\ initCall.by # "call"

\* line 79: await engine.begin(); connecting creates the SQLite file.  When
\* it raises, the block is not entered and line 86 follows.
InitBegin ==
  /\ pc = "init_begin"
  /\ \E ok \in BOOLEAN :
       IF ok
         THEN /\ dbExists' = TRUE
              /\ leases' = Acquire(leases, Caller)
              /\ pc' = "init_exec"
              /\ initCall' = initCall
         ELSE /\ dbExists' = dbExists
              /\ leases' = leases
              /\ pc' = "init_dispose"
              /\ initCall' = [initCall EXCEPT !.failed = TRUE]
  /\ UNCHANGED <<tables, ddlRuns, recorder, storeVars, dbPath, result, other,
                 notBoot>>

\* how the statement s of the schema can go for the holder i: it raises on
\* a stale connection (the file is gone); schema.sql decides whether it
\* raises on a table that is there
DdlOutcomes(i, s) == IF Stale(i) THEN {FALSE} ELSE BOOLEAN

\* the store file after statement s went as ok for the holder i
DdlApplied(i, s, ok) ==
  /\ ddlRuns' = IF Stale(i) THEN ddlRuns ELSE [ddlRuns EXCEPT ![s] = @ + 1]
  /\ tables' = IF ok THEN tables \cup {Schema[s]} ELSE tables

\* lines 82-84: await conn.execute of one statement of the loop; under
\* AUTOCOMMIT (line 42) its effect is durable when it returns
InitExec ==
  /\ pc = "init_exec"
  /\ LET s == initCall.next IN
     \E ok \in DdlOutcomes(Caller, s) :
       /\ DdlApplied(Caller, s, ok)
       /\ initCall' = [initCall EXCEPT !.next = s + 1, !.ddl = @ + 1,
                                       !.failed = ~ok]
       /\ pc' = IF ok /\ s < NumStatements THEN "init_exec" ELSE "init_exit"
  /\ UNCHANGED <<dbExists, recorder, storeVars, dbPath, leases, result, other,
                 notBoot>>

\* what the rollback of a failed block leaves of the statements executed
\* before the failing one: under AUTOCOMMIT it undoes nothing
AfterFailedDdl(applied) == applied

\* line 79, leaving the async with block: commit, or rollback when a
\* statement raised; the connection goes back to the pool
InitExit ==
  /\ pc = "init_exit"
  /\ tables' = IF initCall.failed THEN AfterFailedDdl(tables) ELSE tables
  /\ leases' = Release(leases, {Caller})
  /\ pc' = "init_dispose"
  /\ UNCHANGED <<dbExists, ddlRuns, recorder, storeVars, dbPath, result,
                 initCall, other, notBoot>>

\* line 86: await engine.dispose(), then init_db returns or raises
InitDispose ==
  /\ pc = "init_dispose"
  /\ InitDone(initCall.by, IF initCall.failed THEN "raised" ELSE "ok")
  /\ UNCHANGED <<fileVars, storeVars, dbPath, leases, initCall, other, notBoot>>

\* ------------------------------------------------- the insert helper
\* _insert_pydantic_model, lines 88-106, runs in three steps, each ending at
\* an await: engine.begin() (line 94), conn.execute and the decoding of the
\* returned row (lines 96-103), and the exit of the async with block.

\* the rows of a table
TableRows(tbl) ==
  CASE tbl = TblPrompts -> prompts
    [] tbl = TblOutputs -> outputs
    [] tbl = TblAlerts -> alerts

\* id is the primary key of each table: no two rows of a table share it
KeyFree(rows, row) == \A r \in rows : r.id # row.id

\* How line 94 can go
BeginOutcomes == {"begin_fail", "begun"}
\* line 94: an exception of engine.begin() leaves the helper (it is outside
\* the try)
InsertRaises(o) == o = "begin_fail"

\* How lines 96-103 can go:
\*   exec_fail    conn.execute raises (line 96), caught at line 104
\*   no_row       result.first() is None (lines 97-99)
\*   decode_fail  the row is in the store, model_class(**row) raises (line 103),
\*                caught at line 104
\*   ok           the row is in the store and decoded
\* A statement on a table the store does not have cannot succeed, nor can
\* the INSERT of a row whose id the table has, nor a write by the holder i
\* of a stale connection.
InsertOutcomes(i, tbl, rows, row) ==
  IF tbl \in tables /\ KeyFree(rows, row) /\ ~Stale(i)
    THEN {"exec_fail", "no_row", "decode_fail", "ok"}
    ELSE {"exec_fail"}

\* line 96 under AUTOCOMMIT: the row is durable once execute has returned it
RowWrittenUndecoded(o) == o = "decode_fail"
RowWritten(o) == o \in {"decode_fail", "ok"}

\* line 96: the statements the helper is given are INSERTs (lines 132-137,
\* 148-153, 201-210); the written row joins the rows of its table
InsertOrReplace(rows, row) == {row}
InsertRow(rows, row) == rows \cup {row}

\* lines 97-106: the helper's return value
InsertReturns(model, o) ==
  IF o = "ok" THEN model ELSE None

\* the store after the INSERT of row into tbl went as o
StoreAfter(tbl, row, o) ==
  /\ prompts' = IF tbl = TblPrompts /\ RowWritten(o)
                  THEN InsertRow(prompts, row) ELSE prompts
  /\ outputs' = IF tbl = TblOutputs /\ RowWritten(o)
                  THEN InsertRow(outputs, row) ELSE outputs
  /\ alerts' = IF tbl = TblAlerts /\ RowWritten(o)
                 THEN InsertRow(alerts, row) ELSE alerts

\* the operation op calls _insert_pydantic_model(model, sql): the helper runs
\* up to its first await
CallInsert(op, tbl, model) ==
  /\ helper' = [op |-> op, tbl |-> tbl, model |-> model, ret |-> None]
  /\ attempts' = attempts + 1
  /\ pc' = "ins_begin"
  /\ result' = NoResult

\* what a step of the caller's helper call leaves alone
notInsert == <<tables, ddlRuns, recorder, nextId, dbPath, attempts, wiped, initCall,
               argRequest, streamVars, alertVars, readVars, other, importVars>>

\* line 94: await engine.begin(); connecting creates the SQLite file
InsertBegin ==
  /\ pc = "ins_begin"
  /\ \E o \in BeginOutcomes :
       IF InsertRaises(o)
         THEN /\ pc' = "done"
              /\ result' = Raised(helper.op)
              /\ UNCHANGED <<dbExists, leases>>
         ELSE /\ pc' = "ins_execute"
              /\ result' = result
              /\ dbExists' = TRUE
              /\ leases' = Acquire(leases, Caller)
  /\ UNCHANGED <<storeVars, wrote, helper, notInsert>>

\* lines 96-106: await conn.execute, then the row is decoded
InsertExecute ==
  /\ pc = "ins_execute"
  /\ \E o \in InsertOutcomes(Caller, helper.tbl, TableRows(helper.tbl),
                              helper.model) :
       /\ StoreAfter(helper.tbl, helper.model, o)
       /\ wrote' = IF RowWritten(o) THEN wrote \cup {helper.model} ELSE wrote
       /\ helper' = [helper EXCEPT !.ret = InsertReturns(helper.model, o)]
  /\ pc' = "ins_exit"
  /\ UNCHANGED <<dbExists, leases, result, notInsert>>

\* line 94, leaving the async with block: the connection goes back to the
\* pool and the helper returns to the operation, which returns its value
InsertExit ==
  /\ pc = "ins_exit"
  /\ leases' = Release(leases, {Caller})
  /\ pc' = "done"
  /\ result' = IF helper.op = "record_output_stream"
                 THEN Ended(helper.op, "exhausted")
                 ELSE Returned(helper.op, helper.ret)
  /\ UNCHANGED <<dbExists, storeVars, wrote, helper, notInsert>>

\* ---------------------------------------------------------- serialization
Providers == {"openai"}
Bodies == {"q"}
\* a request or response: a pydantic model ("model") or any other object
\* ("plain"); ok: whether its serialization succeeds
Payloads == [kind : {"model", "plain"}, body : Bodies, ok : BOOLEAN]

\* model_dump_json(exclude_none=True, exclude_unset=True), lines 113 and 185
ModelDumpJson(x) == [json |-> x.body]
\* json.dumps, lines 116 and 188
JsonDumps(x) == [json |-> x.body]

\* lines 112-118 and 184-190: model_dump_json has no handler around it,
\* json.dumps has one
SerializeRaises(x) == x.kind = "model" /\ ~x.ok
\* lines 111-118 and 183-190: request_str / output_str, None when json.dumps
\* raised
SerializeStr(x) ==
  IF x.kind = "model" THEN ModelDumpJson(x)
  ELSE IF x.ok THEN JsonDumps(x) ELSE None

\* ---------------------------------------------------------- record_request
\* lines 125-131
NewPromptChatOnly(id, provider_str, is_fim_request, request_str) ==
  [id |-> id, provider |-> provider_str, type |-> "chat", request |-> request_str]
NewPrompt(id, provider_str, is_fim_request, request_str) ==
  [id |-> id, provider |-> provider_str,
   type |-> (IF is_fim_request THEN "fim" ELSE "chat"), request |-> request_str]

\* what the synchronous start of an operation leaves alone
notStart == <<fileVars, recorder, storeVars, dbPath, leases, wrote, wiped, initCall,
              other, importVars>>

\* record_request, lines 108-139 up to the helper's first await
RecordRequest ==
  /\ pc = "idle"
  /\ recorder
  /\ \E req \in Payloads, is_fim \in BOOLEAN, provider \in Providers :
       LET request_str == SerializeStr(req) IN
       /\ argRequest' = [normalized_request |-> req, is_fim_request |-> is_fim,
                         provider_str |-> provider]
       /\ IF SerializeRaises(req)
            THEN /\ pc' = "done"
                 /\ result' = Raised("record_request")
                 /\ UNCHANGED <<nextId, attempts, helper>>
          ELSE IF request_str = None
            THEN /\ pc' = "done"
                 /\ result' = Returned("record_request", None)
                 /\ UNCHANGED <<nextId, attempts, helper>>
          ELSE
            /\ nextId <= MaxIds
            /\ nextId' = nextId + 1
            /\ CallInsert("record_request", TblPrompts,
                          NewPrompt(nextId, provider, is_fim, request_str))
  /\ UNCHANGED <<streamVars, alertVars, readVars, notStart>>

\* ------------------------------------------------------------ _record_output
\* lines 142-147
NewOutput(id, prompt, output_str) ==
  [id |-> id, prompt_id |-> prompt.id, output |-> output_str]

\* a Prompt the caller has built itself: no row of the store has its id
OwnPrompt ==
  [id |-> 0, provider |-> "openai", type |-> "chat", request |-> [json |-> "q"]]

\* the prompt argument (lines 158, 177): None, a Prompt of the store or any
\* other Prompt object
PromptArgs == prompts \cup {None, OwnPrompt}

\* ------------------------------------------------- record_output_non_stream
\* line 179
NonStreamSkips(prompt) == prompt = None

\* lines 176-196 up to the helper's first await
RecordOutputNonStream ==
  /\ pc = "idle"
  /\ recorder
  /\ \E prompt \in PromptArgs, resp \in Payloads :
       LET output_str == SerializeStr(resp) IN
       /\ argPrompt' = prompt
       /\ IF NonStreamSkips(prompt)
             THEN /\ pc' = "done"
                  /\ result' = Returned("record_output_non_stream", None)
                  /\ UNCHANGED <<nextId, attempts, helper>>
           ELSE IF SerializeRaises(resp)
             THEN /\ pc' = "done"
                  /\ result' = Raised("record_output_non_stream")
                  /\ UNCHANGED <<nextId, attempts, helper>>
           ELSE IF output_str = None
             THEN /\ pc' = "done"
                  /\ result' = Returned("record_output_non_stream", None)
                  /\ UNCHANGED <<nextId, attempts, helper>>
           ELSE
             /\ nextId <= MaxIds
             /\ nextId' = nextId + 1
             /\ CallInsert("record_output_non_stream", TblOutputs,
                           NewOutput(nextId, prompt, output_str))
  /\ UNCHANGED <<argRequest, streamIn, upstream, emitted, output_chunks,
                 alertVars, readVars, notStart>>

\* ------------------------------------------------------ record_output_stream
\* Upstream chunks: a pydantic model, a dict or anything else (lines 162, 165,
\* 167).  ok: whether the chunk can be normalized; the dict "x" is one that
\* copy.deepcopy cannot copy (it holds a lock, say); the dict "s" is copied
\* but holds a value json.dumps cannot serialize (a set, a datetime).
Chunks ==
  { [kind |-> "other", v |-> "a", ok |-> TRUE],
    [kind |-> "model", v |-> "m", ok |-> TRUE],
    [kind |-> "dict", v |-> "x", ok |-> FALSE],
    [kind |-> "dict", v |-> "s", ok |-> TRUE] }

SeqsUpTo(S, n) == UNION { [1..k -> S] : k \in 0..n }

\* the upstream sequences: up to MaxChunks chunks, plain ones followed by
\* a last chunk of any kind
Upstreams ==
  {s \in SeqsUpTo(Chunks, MaxChunks) :
     \A i \in 1..(Len(s) - 1) : s[i].kind = "other"}

\* lines 162-168: model_dump, copy.deepcopy or str raises
NormalizeRaises(chunk) == ~chunk.ok

\* lines 162-168: the form appended to output_chunks
Normalize(chunk) ==
  IF chunk.kind = "model" THEN [model_dump |-> chunk.v]
  ELSE IF chunk.kind = "dict" THEN [dict |-> chunk.v]
  ELSE [chunk |-> chunk.v]

\* the dict contents json.dumps raises TypeError on
Unserializable == {"s"}

\* line 173: json.dumps(output_chunks) has no handler around it
DumpRaises(chunks) ==
  \E i \in DOMAIN chunks :
    /\ "dict" \in DOMAIN chunks[i]
    /\ chunks[i].dict \in Unserializable
DumpChunks(chunks) == [json |-> chunks]

\* the chunk the generator's loop variable holds
CurrentChunk == streamIn[Len(streamIn) - Len(upstream)]

\* line 171
FlushNeeded(chunks) == chunks # <<>>

\* line 161: the async for ends when the upstream iterator has no chunk left
UpstreamDoneEarly(up) == Len(up) <= 1
UpstreamDone(up) == up = <<>>

\* what a step of the generator's loop leaves alone
notLoop == <<fileVars, recorder, storeVars, nextId, dbPath, leases, attempts,
             wrote, wiped, initCall, helper, argRequest, alertVars, readVars, other,
             importVars>>

\* record_output_stream(prompt, model_response) is called: an async generator
\* is created; none of its code runs before the first __anext__
RecordOutputStream ==
  /\ pc = "idle"
  /\ recorder
  /\ \E prompt \in PromptArgs, chunks \in Upstreams :
       /\ argPrompt' = prompt
       /\ streamIn' = chunks
       /\ upstream' = chunks
  /\ emitted' = <<>>
  /\ output_chunks' = <<>>
  /\ pc' = "gen_suspended"
  /\ result' = NoResult
  /\ UNCHANGED notLoop

\* the caller's __anext__ with a chunk left upstream: lines 161-168, up to
\* the yield
StreamPull ==
  /\ pc = "gen_suspended"
  /\ ~UpstreamDone(upstream)
  /\ LET chunk == Head(upstream) IN
       /\ upstream' = Tail(upstream)
       /\ IF NormalizeRaises(chunk)
            THEN /\ pc' = "done"
                 /\ result' = Raised("record_output_stream")
                 /\ output_chunks' = output_chunks
            ELSE /\ pc' = "gen_yield"
                 /\ result' = result
                 /\ output_chunks' = Append(output_chunks, Normalize(chunk))
  /\ UNCHANGED <<argPrompt, streamIn, emitted, notLoop>>

\* line 169: the chunk reaches the caller
StreamYield ==
  /\ pc = "gen_yield"
  /\ emitted' = Append(emitted, CurrentChunk)
  /\ pc' = "gen_suspended"
  /\ UNCHANGED <<result, argPrompt, streamIn, upstream, output_chunks, notLoop>>

\* the caller's __anext__ with the upstream exhausted: the async for of line
\* 161 ends and the generator goes on to line 171
StreamDrain ==
  /\ pc = "gen_suspended"
  /\ UpstreamDone(upstream)
  /\ pc' = "gen_drained"
  /\ UNCHANGED <<result, streamVars, notLoop>>

\* lines 171-174 up to the helper's first await.  json.dumps (line 173) may
\* raise; with prompt None, prompt.id (line 144) raises AttributeError
\* before the helper is called.  Without a chunk the generator ends
\* (StopAsyncIteration).
StreamFlush ==
  /\ pc = "gen_drained"
  /\ IF ~FlushNeeded(output_chunks)
       THEN /\ pc' = "done"
            /\ result' = Ended("record_output_stream", "exhausted")
            /\ UNCHANGED <<nextId, attempts, helper>>
     ELSE IF DumpRaises(output_chunks) \/ argPrompt = None
       THEN /\ pc' = "done"
            /\ result' = Raised("record_output_stream")
            /\ UNCHANGED <<nextId, attempts, helper>>
     ELSE
       /\ nextId <= MaxIds
       /\ nextId' = nextId + 1
       /\ CallInsert("record_output_stream", TblOutputs,
                     NewOutput(nextId, argPrompt, DumpChunks(output_chunks)))
  /\ UNCHANGED <<fileVars, recorder, storeVars, dbPath, leases, wrote, wiped,
                 initCall, argRequest, streamVars, alertVars, readVars, other,
                 importVars>>

\* the caller abandons the generator (aclose, or it is garbage collected)
\* while it is suspended: GeneratorExit is raised at the yield (or the
\* generator never starts); there is no try/finally around the loop, so
\* nothing else of the body runs
StreamClose ==
  /\ pc = "gen_suspended"
  /\ pc' = "done"
  /\ result' = Ended("record_output_stream", "closed")
  /\ UNCHANGED <<streamVars, notLoop>>

\* ------------------------------------------------------------ record_alerts
\* Each task runs _insert_pydantic_model(alert, sql) and stands at one of
\*   created        tg.create_task has scheduled it (line 216), not yet run
\*   connecting     awaiting engine.begin() (line 94)
\*   executing      awaiting conn.execute (line 96)
\*   exit_inserted  its row is in the store, it is leaving the async with
\*                  block and still holds its connection
\*   exit_none      as exit_inserted, with no row (execute raised or
\*                  returned no row)
\*   inserted       returned, its row is in the store
\*   not_inserted   returned None, no row
\*   failed         ended with the exception engine.begin() raised
\*   cancelled      cancelled by the TaskGroup
TaskLive == {"created", "connecting", "executing", "exit_inserted", "exit_none"}

\* lines 213-218: leaving the async with TaskGroup() block awaits every task
SomeTaskEnded == \E i \in DOMAIN tasks : tasks[i] \notin TaskLive
AllTasksEnded == \A i \in DOMAIN tasks : tasks[i] \notin TaskLive

\* asyncio.TaskGroup: a task ending with an exception schedules a callback;
\* when the callback runs, on a later turn of the loop, the group cancels
\* every task that has not ended.  The steps the loop had ready before the
\* callback run first: each other task may run one step in between.
GroupCancels(st) == st \in TaskLive

\* task i may run a step
MayRun(i) ==
  \/ group.state = "running"
  \/ group.state = "failing" /\ i \notin group.ran

\* the group after task i has run a step
GroupAfter(i) ==
  IF group.state = "failing" THEN [group EXCEPT !.ran = @ \cup {i}] ELSE group

\* line 199
AlertsSkips(as) == as = <<>>

\* the prompt_id of an alert the caller passes: the id of a Prompt of the
\* store or of any other Prompt
LinkIds == {p.id : p \in prompts} \cup {OwnPrompt.id}

\* the alerts argument: n alerts the caller has built, each with an id of its
\* own, or the same alert n times
AlertBatches(n) ==
  {[i \in 1..n |-> [id |-> nextId + i - 1, prompt_id |-> link[i]]] :
      link \in [1..n -> LinkIds]}
    \cup (IF n >= 2
            THEN {[i \in 1..n |-> [id |-> nextId, prompt_id |-> l]] : l \in LinkIds}
            ELSE {})

\* the ids of a batch
BatchIds(as) == {as[i].id : i \in DOMAIN as}

\* record_alerts(alerts), lines 198-216: the early return, or the tasks are
\* created
RecordAlerts ==
  /\ pc = "idle"
  /\ recorder
  /\ \E n \in 0..MaxAlerts :
       /\ nextId + n - 1 <= MaxIds
       /\ \E as \in AlertBatches(n) :
            /\ batch' = as
            /\ nextId' = nextId + Cardinality(BatchIds(as))
            /\ IF AlertsSkips(as)
                 THEN /\ tasks' = <<>>
                      /\ pc' = "done"
                      /\ result' = Returned("record_alerts", None)
                 ELSE /\ tasks' = [i \in 1..n |-> "created"]
                      /\ pc' = "tg_join"
                      /\ result' = NoResult
  /\ UNCHANGED <<group, attempts, helper, argRequest, streamVars, readVars,
                 notStart>>

\* what a step of a task leaves alone
notTask == <<tables, ddlRuns, recorder, nextId, dbPath, pc, result, wiped, initCall,
             helper, argRequest, streamVars, batch, readVars, other, importVars>>

\* a created task gets to run: the helper is entered and awaits engine.begin()
TaskStart(i) ==
  /\ pc = "tg_join"
  /\ tasks[i] = "created"
  /\ MayRun(i)
  /\ tasks' = [tasks EXCEPT ![i] = "connecting"]
  /\ group' = GroupAfter(i)
  /\ attempts' = attempts + 1
  /\ UNCHANGED <<dbExists, storeVars, leases, wrote, notTask>>

\* line 94 succeeds: the task holds its connection and awaits conn.execute
TaskBegin(i) ==
  /\ pc = "tg_join"
  /\ tasks[i] = "connecting"
  /\ MayRun(i)
  /\ leases' = Acquire(leases, i)
  /\ dbExists' = TRUE
  /\ tasks' = [tasks EXCEPT ![i] = "executing"]
  /\ group' = GroupAfter(i)
  /\ UNCHANGED <<storeVars, attempts, wrote, notTask>>

\* line 94 raises: the exception leaves the helper and ends the task
TaskBeginFails(i) ==
  /\ pc = "tg_join"
  /\ tasks[i] = "connecting"
  /\ MayRun(i)
  /\ tasks' = [tasks EXCEPT ![i] = "failed"]
  /\ group' = IF group.state = "running"
                THEN [state |-> "failing", ran |-> {}]
                ELSE GroupAfter(i)
  /\ UNCHANGED <<dbExists, storeVars, leases, attempts, wrote, notTask>>

\* the callback of the failed task runs: the group starts cancelling
GroupAbort ==
  /\ pc = "tg_join"
  /\ group.state = "failing"
  /\ group' = [state |-> "aborted", ran |-> {}]
  /\ UNCHANGED <<dbExists, storeVars, leases, attempts, wrote, tasks, notTask>>

\* CancelledError reaches task j at its await; it is no Exception, so line
\* 104 does not catch it.  The block is left and the connection given back.
\* A task cancelled while its INSERT is with the driver may have its row
\* written or not (landed).
TaskCancel(j) ==
  /\ pc = "tg_join"
  /\ group.state = "aborted"
  /\ GroupCancels(tasks[j])
  /\ \E landed \in BOOLEAN :
       /\ landed =>
            /\ tasks[j] = "executing"
            /\ "ok" \in InsertOutcomes(j, TblAlerts, alerts, batch[j])
       /\ alerts' = IF landed THEN InsertRow(alerts, batch[j]) ELSE alerts
       /\ wrote' = IF landed THEN wrote \cup {batch[j]} ELSE wrote
  /\ tasks' = [tasks EXCEPT ![j] = "cancelled"]
  /\ leases' = Release(leases, {j})
  /\ UNCHANGED <<dbExists, prompts, outputs, attempts, group, notTask>>

\* lines 96-106: the statement runs and its row is decoded
TaskExecute(i) ==
  /\ pc = "tg_join"
  /\ tasks[i] = "executing"
  /\ MayRun(i)
  /\ \E o \in InsertOutcomes(i, TblAlerts, alerts, batch[i]) :
       /\ StoreAfter(TblAlerts, batch[i], o)
       /\ wrote' = IF RowWritten(o) THEN wrote \cup {batch[i]} ELSE wrote
       /\ tasks' = [tasks EXCEPT ![i] = IF RowWritten(o) THEN "exit_inserted"
                                                         ELSE "exit_none"]
  /\ group' = GroupAfter(i)
  /\ UNCHANGED <<dbExists, leases, attempts, notTask>>

\* line 94, leaving the async with block: the connection goes back to the
\* pool, the helper returns and the task ends
TaskExit(i) ==
  /\ pc = "tg_join"
  /\ tasks[i] \in {"exit_inserted", "exit_none"}
  /\ MayRun(i)
  /\ tasks' = [tasks EXCEPT ![i] = IF tasks[i] = "exit_inserted"
                                     THEN "inserted" ELSE "not_inserted"]
  /\ leases' = Release(leases, {i})
  /\ group' = GroupAfter(i)
  /\ UNCHANGED <<dbExists, storeVars, attempts, wrote, notTask>>

\* lines 213-219: the async with block is left once every task has ended; it
\* raises an ExceptionGroup when a task ended with an exception
GroupRaises == \E i \in DOMAIN tasks : tasks[i] = "failed"

AlertsReturn ==
  /\ pc = "tg_join"
  /\ AllTasksEnded
  /\ pc' = "done"
  /\ result' = IF GroupRaises THEN Raised("record_alerts")
                              ELSE Returned("record_alerts", None)
  /\ UNCHANGED <<fileVars, recorder, storeVars, nextId, dbPath, leases, attempts,
                 wrote, wiped, initCall, helper, argRequest, streamVars, alertVars,
                 readVars, other, importVars>>

\* ------------------------------------------------------------------ DbReader
\* DbReader.__init__ (lines 224-225) only builds the lazy engine, so a read
\* needs no step before it.  A read runs in steps that each end at an
\* await: connect (lines 228, 235), the query, one __anext__ of the
\* comprehension per row and one more for the end of the rows (lines 230,
\* 237), and conn.close() (lines 231, 238).
ReaderOps == {"get_prompts_with_output", "get_alerts_with_prompt_and_output"}

\* the tables a read's query names
ReadTables(op) ==
  IF op = "get_prompts_with_output"
    THEN {TblPrompts, TblOutputs}
    ELSE {TblPrompts, TblOutputs, TblAlerts}

\* the query of get_prompt_with_outputs: each prompt with each of its
\* outputs, a prompt without output once
PromptWithOutputs(ps, os) ==
  {[prompt |-> po[1], output |-> po[2]] :
      po \in {x \in ps \X os : x[2].prompt_id = x[1].id}}
    \cup {[prompt |-> p, output |-> None] :
            p \in {q \in ps : \A o \in os : o.prompt_id # q.id}}

\* the query of get_alerts_with_prompt_and_output: each alert with its
\* prompt and each output of that prompt
AlertsWithPromptAndOutput(as, ps, os) ==
  {[alert |-> a, prompt |-> r.prompt, output |-> r.output] :
      <<a, r>> \in {x \in as \X PromptWithOutputs(ps, os) :
                      x[1].prompt_id = x[2].prompt.id}}

\* the rows a read's query selects
ReadResult(op) ==
  IF op = "get_prompts_with_output"
    THEN PromptWithOutputs(prompts, outputs)
    ELSE AlertsWithPromptAndOutput(alerts, prompts, outputs)

\* how the query can go: it raises when a table is missing
QueryOutcomes(tbls) ==
  IF tbls \subseteq tables THEN {"query_fail", "ok"} ELSE {"query_fail"}

\* what a step of a read leaves alone
notRead == <<tables, ddlRuns, recorder, storeVars, nextId, dbPath, leases,
             attempts, wrote, wiped, initCall, helper, argRequest, streamVars,
             alertVars, other, importVars>>

\* lines 227 and 234: the read is called and awaits connect
ReadCall(op) ==
  /\ pc = "idle"
  /\ readConn' = [NoRead EXCEPT !.op = op]
  /\ pc' = "rd_connect"
  /\ UNCHANGED <<dbExists, result, readCursor, readRows, notRead>>

GetPromptsWithOutput == ReadCall("get_prompts_with_output")

GetAlertsWithPromptAndOutput == ReadCall("get_alerts_with_prompt_and_output")

\* lines 228 and 235: await connect(); connecting opens the SQLite file,
\* which creates it
ReadConnect ==
  /\ pc = "rd_connect"
  /\ \E ok \in BOOLEAN :
       IF ok
         THEN /\ readConn' = [readConn EXCEPT !.state = "open"]
              /\ dbExists' = TRUE
              /\ pc' = "rd_query"
              /\ result' = result
         ELSE /\ readConn' = readConn
              /\ dbExists' = dbExists
              /\ pc' = "done"
              /\ result' = Raised(readConn.op)
  /\ UNCHANGED <<readCursor, readRows, notRead>>

\* the read's connection, when the store file is unlinked under it before
\* the query has run: the query will see the file that is gone, as it is now
ReadAfterUnlink ==
  IF pc = "rd_query" /\ ~readConn.stale
    THEN /\ readConn' = [readConn EXCEPT
                           !.stale = TRUE,
                           !.had = ReadTables(readConn.op) \subseteq tables]
         /\ readCursor' = ReadResult(readConn.op)
         /\ readRows' = readRows
    ELSE UNCHANGED <<readConn, readCursor, readRows>>

\* lines 230 and 237: the comprehension starts the query, whose result set
\* is the store's content at this step.  An exception passes line 231 / 238:
\* the connection is not closed.
ReadQuery ==
  /\ pc = "rd_query"
  /\ \E o \in (IF readConn.stale
                 THEN (IF readConn.had THEN {"query_fail", "ok"}
                                       ELSE {"query_fail"})
                 ELSE QueryOutcomes(ReadTables(readConn.op))) :
       IF o = "ok"
         THEN /\ readCursor' = IF readConn.stale THEN readCursor
                                                 ELSE ReadResult(readConn.op)
              /\ pc' = "rd_fetch"
              /\ result' = result
         ELSE /\ readCursor' = {}
              /\ pc' = "done"
              /\ result' = Raised(readConn.op)
  /\ UNCHANGED <<dbExists, readConn, readRows, notRead>>

\* lines 230 and 237, one __anext__ of the comprehension: the next row of
\* the result set is fetched and decoded, in the order the store gives
\* them, or the rows have ended; an exception passes line 231 / 238
ReadFetch ==
  /\ pc = "rd_fetch"
  /\ \E ok \in BOOLEAN :
       IF ~ok
         THEN /\ pc' = "done"
              /\ result' = Raised(readConn.op)
              /\ readCursor' = {}
              /\ readRows' = {}
       ELSE IF readCursor = {}
         THEN /\ pc' = "rd_close"
              /\ result' = result
              /\ UNCHANGED <<readCursor, readRows>>
       ELSE \E row \in readCursor :
              /\ readCursor' = readCursor \ {row}
              /\ readRows' = readRows \cup {row}
              /\ pc' = pc
              /\ result' = result
  /\ UNCHANGED <<dbExists, readConn, notRead>>

\* lines 231-232 and 238-239: await conn.close(), then the rows are returned
ReadClose ==
  /\ pc = "rd_close"
  /\ readConn' = [readConn EXCEPT !.state = "closed"]
  /\ pc' = "done"
  /\ result' = Ended(readConn.op, "rows")
  /\ UNCHANGED <<dbExists, readCursor, readRows, notRead>>

\* ------------------------------------------------- the second coroutine
\* Another coroutine of the same loop runs operations of its own, one at a
\* time: record_request, record_output_non_stream, init_db or init_db_sync.
\* Its steps interleave with the caller's between any two awaits.  It cannot
\* run while the caller is inside asyncio.run.
OtherPayload == [kind |-> "plain", body |-> "q", ok |-> TRUE]
OtherPrompt(id) == NewPrompt(id, "openai", FALSE, SerializeStr(OtherPayload))

\* the table of the second coroutine's insert
OtherTbl == IF other.op = "record_request" THEN TblPrompts ELSE TblOutputs

\* what a step of the second coroutine leaves alone
notOther == <<recorder, dbPath, pc, result, callVars, importVars>>

\* record_request, lines 108-139 up to the helper's first await
OtherRecordRequest ==
  /\ recorder
  /\ ~Blocking
  /\ other.pc = "idle"
  /\ nextId <= MaxIds
  /\ nextId' = nextId + 1
  /\ other' = [NoOther EXCEPT !.pc = "ins_begin", !.op = "record_request",
                              !.row = OtherPrompt(nextId)]
  /\ UNCHANGED <<fileVars, storeVars, leases, notOther>>

\* record_output_non_stream, lines 176-196 up to the helper's first await
OtherRecordOutputNonStream ==
  /\ recorder
  /\ ~Blocking
  /\ other.pc = "idle"
  /\ nextId <= MaxIds
  /\ nextId' = nextId + 1
  /\ \E prompt \in PromptArgs \ {None} :
       other' = [NoOther EXCEPT
                   !.pc = "ins_begin", !.op = "record_output_non_stream",
                   !.row = NewOutput(nextId, prompt, SerializeStr(OtherPayload))]
  /\ UNCHANGED <<fileVars, storeVars, leases, notOther>>

\* line 94
OtherInsertBegin ==
  /\ ~Blocking
  /\ other.pc = "ins_begin"
  /\ \E o \in BeginOutcomes :
       IF InsertRaises(o)
         THEN /\ other' = NoOther
              /\ UNCHANGED <<dbExists, leases>>
         ELSE /\ other' = [other EXCEPT !.pc = "ins_execute"]
              /\ dbExists' = TRUE
              /\ leases' = Acquire(leases, Other)
  /\ UNCHANGED <<tables, ddlRuns, storeVars, nextId, notOther>>

\* lines 96-106
OtherInsertExecute ==
  /\ ~Blocking
  /\ other.pc = "ins_execute"
  /\ \E o \in InsertOutcomes(Other, OtherTbl, TableRows(OtherTbl), other.row) :
       StoreAfter(OtherTbl, other.row, o)
  /\ other' = [other EXCEPT !.pc = "ins_exit"]
  /\ UNCHANGED <<fileVars, nextId, leases, notOther>>

\* line 94, leaving the block; the call returns
OtherInsertExit ==
  /\ ~Blocking
  /\ other.pc = "ins_exit"
  /\ leases' = Release(leases, {Other})
  /\ other' = NoOther
  /\ UNCHANGED <<fileVars, storeVars, nextId, notOther>>

\* await recorder.init_db(), lines 60-79: past the early return of line 62
\* and with schema.sql there, up to engine.begin().  A caller's init_db in
\* flight is no longer alone.
OtherInitDb ==
  /\ recorder
  /\ ~Blocking
  /\ other.pc = "idle"
  /\ ~InitDbSkips(does_db_exist)
  /\ other' = [NoOther EXCEPT !.pc = "init_begin", !.op = "init_db", !.n = 1]
  /\ initCall' = IF InInit THEN [initCall EXCEPT !.alone = FALSE] ELSE initCall
  /\ UNCHANGED <<fileVars, recorder, storeVars, nextId, dbPath, leases, pc,
                 result, attempts, wrote, wiped, helper, argRequest, streamVars,
                 alertVars, readVars, importVars>>

\* line 79
OtherInitBegin ==
  /\ ~Blocking
  /\ other.pc = "init_begin"
  /\ \E ok \in BOOLEAN :
       IF ok
         THEN /\ dbExists' = TRUE
              /\ leases' = Acquire(leases, Other)
              /\ other' = [other EXCEPT !.pc = "init_exec"]
         ELSE /\ UNCHANGED <<dbExists, leases>>
              /\ other' = [other EXCEPT !.pc = "init_dispose"]
  /\ UNCHANGED <<tables, ddlRuns, storeVars, nextId, notOther>>

\* lines 82-84, statement other.n
OtherInitExec ==
  /\ ~Blocking
  /\ other.pc = "init_exec"
  /\ \E ok \in DdlOutcomes(Other, other.n) :
       /\ DdlApplied(Other, other.n, ok)
       /\ other' = [other EXCEPT
                      !.n = @ + 1,
                      !.pc = IF ok /\ other.n < NumStatements
                               THEN "init_exec" ELSE "init_exit"]
  /\ UNCHANGED <<dbExists, storeVars, nextId, leases, notOther>>

\* line 79, leaving the block
OtherInitExit ==
  /\ ~Blocking
  /\ other.pc = "init_exit"
  /\ leases' = Release(leases, {Other})
  /\ other' = [other EXCEPT !.pc = "init_dispose"]
  /\ UNCHANGED <<fileVars, storeVars, nextId, notOther>>

\* line 86; init_db returns or raises
OtherInitDispose ==
  /\ ~Blocking
  /\ other.pc = "init_dispose"
  /\ other' = NoOther
  /\ UNCHANGED <<fileVars, storeVars, nextId, leases, notOther>>

\* ------------------------------------------------------------ init_db_sync
\* init_db_sync(), lines 242-249.  Line 244 is db = DbRecorder().  Called
\* while a loop is running (inLoop: from a coroutine, as it is whenever the
\* second coroutine is in flight), the asyncio.run of line 58 raises
\* RuntimeError when the store is missing; when the store is there it is
\* unlinked (line 248) and the asyncio.run of line 249 raises.
InitDbSync ==
  /\ pc = "idle"
  /\ dbPath' = DbPath(NoPath)
  /\ \E inLoop \in (IF LoopRunning THEN {TRUE} ELSE BOOLEAN) :
       IF inLoop
         THEN /\ initCall' = [NoInit EXCEPT !.by = "sync_ctor"]
              /\ pc' = "done"
              /\ recorder' = recorder
              /\ result' = Ended("init_db_sync", "raised")
              /\ IF does_db_exist
                   THEN /\ StoreUnlink
                        /\ other' = other
                   ELSE UNCHANGED <<fileVars, storeVars, leases, other>>
         ELSE /\ IF ~ConstructorInits(does_db_exist)
                   THEN ConstructorSkips("sync_ctor", NoPath)
                   ELSE \E schemaFile \in BOOLEAN :
                          EnterInitDb("sync_ctor", does_db_exist, schemaFile,
                                      NoPath)
              /\ UNCHANGED <<fileVars, storeVars, leases, other>>
  /\ UNCHANGED notBoot

\* init_db_sync() called by the second coroutine, with the store there:
\* lines 244-249 run without an await, so in one step.  (With the store
\* missing, line 58 raises and nothing has changed.)
OtherInitDbSync ==
  /\ ~Blocking
  /\ other.pc = "idle"
  /\ does_db_exist
  /\ StoreUnlink
  /\ ReadAfterUnlink
  /\ wiped' = IF pc = "idle" THEN "no"
              ELSE IF pc = "done" /\ wiped # "in_flight" THEN "returned"
              ELSE "in_flight"
  /\ UNCHANGED <<recorder, nextId, dbPath, pc, result, attempts, wrote, initCall,
                 helper, argRequest, streamVars, alertVars, other, importVars>>

\* ------------------------------------------------------------------ the caller
\* the caller takes the result and goes on; the finished call's frame is gone
\* (a connection left open is reclaimed with it)
Return ==
  /\ pc = "done"
  /\ pc' = "idle"
  /\ result' = NoResult
  /\ attempts' = 0
  /\ wrote' = {}
  /\ wiped' = "no"
  /\ initCall' = NoInit
  /\ helper' = NoHelper
  /\ argRequest' = None
  /\ argPrompt' = None
  /\ streamIn' = <<>>
  /\ upstream' = <<>>
  /\ emitted' = <<>>
  /\ output_chunks' = <<>>
  /\ batch' = <<>>
  /\ tasks' = <<>>
  /\ group' = NoGroup
  /\ readConn' = NoRead
  /\ readCursor' = {}
  /\ readRows' = {}
  /\ UNCHANGED <<fileVars, recorder, storeVars, nextId, dbPath, leases, other,
                 importVars>>

Next ==
  \/ DbRecorderInit
  \/ InitDbCall
  \/ InitDbSync
  \/ SyncUnlink
  \/ InitBegin
  \/ InitExec
  \/ InitExit
  \/ InitDispose
  \/ RecordRequest
  \/ RecordOutputNonStream
  \/ InsertBegin
  \/ InsertExecute
  \/ InsertExit
  \/ RecordOutputStream
  \/ StreamPull
  \/ StreamYield
  \/ StreamDrain
  \/ StreamFlush
  \/ StreamClose
  \/ RecordAlerts
  \/ \E i \in DOMAIN tasks : TaskStart(i)
  \/ \E i \in DOMAIN tasks : TaskBegin(i)
  \/ \E i \in DOMAIN tasks : TaskBeginFails(i)
  \/ \E i \in DOMAIN tasks : TaskExecute(i)
  \/ \E i \in DOMAIN tasks : TaskExit(i)
  \/ GroupAbort
  \/ \E j \in DOMAIN tasks : TaskCancel(j)
  \/ AlertsReturn
  \/ GetPromptsWithOutput
  \/ GetAlertsWithPromptAndOutput
  \/ ReadConnect
  \/ ReadQuery
  \/ ReadFetch
  \/ ReadClose
  \/ OtherRecordRequest
  \/ OtherRecordOutputNonStream
  \/ OtherInsertBegin
  \/ OtherInsertExecute
  \/ OtherInsertExit
  \/ OtherInitDb
  \/ OtherInitBegin
  \/ OtherInitExec
  \/ OtherInitExit
  \/ OtherInitDispose
  \/ OtherInitDbSync
  \/ Return

Spec == Init /\ [][Next]_vars
\* ------------------------------------------------------------ PackageImporter
\* PackageImporter over the Package collection of the document store.  The
\* recorder's store is not touched by it.
MaxLines == 2
MaxRuns == 2
MaxProcess == 1

\* lines 31-35: json_files, in the order they are read
JsonFileNames == <<"archived", "deprecated", "malicious">>
NumFiles == Len(JsonFileNames)

\* the lines of a file: packages with name, type and description, which
\* json.loads (line 103) gives as a dict in the order the line has its
\* keys.  The names and types are those whose key of line 105 is a/b/c
Names == {"a", "a/b"}
Types == {"c", "b/c"}
Descriptions == {"d1", "d2"}
KeyOrders == {<<"name", "type", "description">>,
              <<"type", "name", "description">>}

\* one line, and the lines that differ from it in one respect: in name and
\* type under the same key, in the description, in the order of the keys
BaseLine ==
  [keys |-> <<"name", "type", "description">>, name |-> "a/b", type |-> "c",
   description |-> "d1"]

\* lines 91 and 105: the key f"{name}/{type}", one string
KeyOf(package) == package.name \o "/" \o package.type

PackageLines ==
  {l \in [keys : KeyOrders, name : Names, type : Types,
          description : Descriptions] :
     /\ KeyOf(l) = "a/b/c"
     /\ Cardinality({f \in {"keys", "name", "description"} :
                        l[f] # BaseLine[f]}) <= 1}

\* line 104: the status is the file's name without its extension; the new
\* key comes last in the dict
WithStatus(line, file) ==
  [keys |-> Append(line.keys, "status"), name |-> line.name,
   type |-> line.type, description |-> line.description,
   status |-> JsonFileNames[file]]

\* str(package): the keys and values in the dict's order
StrOf(package) ==
  [n \in DOMAIN package.keys |-> <<package.keys[n], package[package.keys[n]]>>]

\* the properties the store keeps of an object: a dict compared by its
\* keys and values, whatever their order
PropertiesOf(package) ==
  [name |-> package.name, type |-> package.type,
   description |-> package.description, status |-> package.status]

\* a file of json_files: missing, or its lines
MissingFile == [exists |-> FALSE, lines |-> <<>>]
FileOf(lines) == [exists |-> TRUE, lines |-> lines]

RECURSIVE TotalLines(_, _)
TotalLines(files, n) ==
  IF n = 0 THEN 0 ELSE Len(files[n].lines) + TotalLines(files, n - 1)

\* the input directories: at most MaxLines lines over the three files; the
\* files after a missing one, which add_data never reaches, are missing too
JsonDirs ==
  {d \in [1..NumFiles ->
            {MissingFile} \cup {FileOf(s) : s \in SeqsUpTo(PackageLines, MaxLines)}] :
     /\ TotalLines(d, NumFiles) <= MaxLines
     /\ \A f \in 2..NumFiles : d[f].exists => d[f - 1].exists}

\* line 122, generate_uuid5(package): a hash of str(package), which has the
\* keys in the dict's order; the same for the same string and taken as
\* free of collisions
Uuid5(package) == [uuid5 |-> StrOf(package)]

\* line 85: add_object without a uuid; the store gives the object a fresh
\* random one
Uuid4(n) == [uuid4 |-> n]

\* lines 119-122: the object batch.add_object sends
PackageObject(package) ==
  [uuid |-> Uuid5(package), properties |-> PropertiesOf(package)]

\* lines 88-96: packages_dict maps each key of the collection to the status
\* and description of an object with that key; of several objects with one
\* key the last in the iterator's order stays, and that order is the
\* store's
PackagesDicts(objects) ==
  LET keys == {KeyOf(o.properties) : o \in objects}
      entries == {[status |-> o.properties.status,
                   description |-> o.properties.description] : o \in objects}
  IN {d \in [keys -> entries] :
        \A k \in keys : \E o \in objects :
           /\ KeyOf(o.properties) = k
           /\ d[k] = [status |-> o.properties.status,
                      description |-> o.properties.description]}

\* lines 107-112: the package is in packages_dict with this status and
\* description
AlreadyExists(package, dict) ==
  /\ KeyOf(package) \in DOMAIN dict
  /\ dict[KeyOf(package)] = [status |-> package.status,
                             description |-> package.description]

\* lines 119-123: the store keeps one object per uuid; an object sent with
\* the uuid of a stored one takes its place
BatchAdd(objects, sent) ==
  {o \in objects : \A n \in sent : n.uuid # o.uuid} \cup sent

\* the objects of packages_to_insert, as lines 120-123 send them
ObjectsOf(to_insert) == {PackageObject(to_insert[n]) : n \in DOMAIN to_insert}

\* the collection before the first run: empty, or left by an import of
\* other files
InitialCollections ==
  {{}} \cup {{PackageObject(WithStatus(l, 1))} : l \in PackageLines}

\* lines 40-47: the backup BACKUP_FOLDER names, when the variable is set and
\* there is one: at first none or one of the empty collection, later one
\* that take_backup has taken
NoBackup == [exists |-> FALSE, objects |-> {}]
BackupOf(objects) == [exists |-> TRUE, objects |-> objects]
Backups == {NoBackup, BackupOf({})}

\* lines 51-67, take_backup: the folder of BACKUP_TARGET_ID is removed when
\* it is there (lines 56-57) and the backup is created, or the creation
\* fails and is printed (lines 60-67).  target: BACKUP_TARGET_ID names the
\* backup restore_backup restores; when it names another, that one stays
BackupTaken(target) ==
  IF target THEN {NoBackup, BackupOf(collection)} ELSE {backup}

NoProcess == [pc |-> "idle"]

InitImport ==
  /\ DbInit
  /\ runs = 0
  /\ importPc = "idle"
  /\ json_file = 0
  /\ lineNo = 0
  /\ packages_dict = <<>>
  /\ packages_to_insert = <<>>
  /\ take_backup_flag = FALSE
  /\ settled = FALSE
  /\ process = NoProcess
  /\ processed = 0
  /\ jsonFiles \in JsonDirs
  /\ collection \in InitialCollections
  /\ backup \in Backups
  /\ backup_target \in BOOLEAN

\* add_data stands at an await (line 115) or is not running: another
\* coroutine of the loop can run
ImportSuspended == importPc \in {"idle", "embed"}

\* lines 40-49: the restore replaces the collection by the backup's, or
\* fails and is printed
Restored == {collection} \cup (IF backup.exists THEN {backup.objects} ELSE {})

\* a restore that has replaced the objects ends what the last run left
SettledAfter(restored) == settled /\ restored = collection

\* add_data has ended: by return (completed) or by an exception
AddDataEnds(completed) ==
  /\ importPc' = "idle"
  /\ json_file' = 0
  /\ lineNo' = 0
  /\ packages_dict' = <<>>
  /\ packages_to_insert' = <<>>
  /\ take_backup_flag' = FALSE
  /\ runs' = runs + 1
  /\ settled' = completed

\* lines 125-128, run_import up to the call of add_data: the backup is
\* restored when restore_backup_flag is set; setup_schema finds the
\* collection
RunImport ==
  /\ importPc = "idle"
  /\ runs < MaxRuns
  /\ \E restore_backup_flag \in BOOLEAN, take \in BOOLEAN :
       /\ collection' \in (IF restore_backup_flag THEN Restored ELSE {collection})
       /\ take_backup_flag' = take
  /\ settled' = SettledAfter(collection')
  /\ importPc' = "add_data"
  /\ UNCHANGED <<jsonFiles, packages_dict, json_file, lineNo, packages_to_insert,
                 runs, backup, backup_target, process, processed, dbVars>>

\* add_data is called by itself
AddData ==
  /\ importPc = "idle"
  /\ runs < MaxRuns
  /\ importPc' = "add_data"
  /\ UNCHANGED <<jsonFiles, collection, packages_dict, json_file, lineNo,
                 packages_to_insert, take_backup_flag, runs, settled, backup, backup_target,
                 process, processed, dbVars>>

\* lines 88-98: packages_dict is built and the loop over the files starts
AddDataStart ==
  /\ importPc = "add_data"
  /\ packages_dict' \in PackagesDicts(collection)
  /\ importPc' = "open"
  /\ json_file' = 1
  /\ UNCHANGED <<jsonFiles, collection, lineNo, packages_to_insert,
                 take_backup_flag, runs, settled, backup, backup_target, process, processed,
                 dbVars>>

\* lines 99-101: the file is opened; open() of a missing file raises and
\* add_data ends there
AddDataOpen ==
  /\ importPc = "open"
  /\ IF jsonFiles[json_file].exists
       THEN /\ importPc' = "line"
            /\ lineNo' = 1
            /\ packages_to_insert' = <<>>
            /\ UNCHANGED <<packages_dict, json_file, take_backup_flag, runs,
                           settled>>
       ELSE AddDataEnds(FALSE)
  /\ UNCHANGED <<jsonFiles, collection, backup, backup_target, process, processed, dbVars>>

\* lines 102-114: the next line of the file, skipped when it is already
\* there and sent to the embedding otherwise; after the last line, the batch
AddDataLine ==
  /\ importPc = "line"
  /\ LET lines == jsonFiles[json_file].lines
     IN IF lineNo > Len(lines)
          THEN /\ importPc' = "batch"
               /\ UNCHANGED lineNo
          ELSE IF AlreadyExists(WithStatus(lines[lineNo], json_file), packages_dict)
                 THEN /\ lineNo' = lineNo + 1
                      /\ UNCHANGED importPc
                 ELSE /\ importPc' = "embed"
                      /\ UNCHANGED lineNo
  /\ UNCHANGED <<jsonFiles, collection, packages_dict, json_file,
                 packages_to_insert, take_backup_flag, runs, settled, backup, backup_target,
                 process, processed, dbVars>>

\* lines 115-116: the embedding is back and the package is appended, or the
\* embedding raises and add_data ends there
AddDataEmbed ==
  /\ importPc = "embed"
  /\ \E ok \in BOOLEAN :
       IF ok
         THEN /\ packages_to_insert' =
                   Append(packages_to_insert,
                          WithStatus(jsonFiles[json_file].lines[lineNo], json_file))
              /\ lineNo' = lineNo + 1
              /\ importPc' = "line"
              /\ UNCHANGED <<packages_dict, json_file, take_backup_flag, runs,
                             settled>>
         ELSE AddDataEnds(FALSE)
  /\ UNCHANGED <<jsonFiles, collection, backup, backup_target, process, processed, dbVars>>

\* lines 119-123: the batch of the file is sent; then the next file
AddDataBatch ==
  /\ importPc = "batch"
  /\ collection' = BatchAdd(collection, ObjectsOf(packages_to_insert))
  /\ packages_to_insert' = <<>>
  /\ lineNo' = 0
  /\ IF json_file = NumFiles
       THEN /\ importPc' = "return"
            /\ UNCHANGED json_file
       ELSE /\ importPc' = "open"
            /\ json_file' = json_file + 1
  /\ UNCHANGED <<jsonFiles, packages_dict, take_backup_flag, runs, settled,
                 backup, backup_target, process, processed, dbVars>>

\* add_data returns; lines 130-131: run_import calls take_backup when
\* take_backup_flag is set
AddDataReturn ==
  /\ importPc = "return"
  /\ AddDataEnds(TRUE)
  /\ backup' \in (IF take_backup_flag THEN BackupTaken(backup_target)
                                      ELSE {backup})
  /\ UNCHANGED <<jsonFiles, collection, backup_target, process, processed,
                 dbVars>>

\* lines 81-83: process_package is called by another coroutine with a
\* package and stands at the embedding
ProcessPackage ==
  /\ ImportSuspended
  /\ process.pc = "idle"
  /\ processed < MaxProcess
  /\ \E l \in PackageLines :
       process' = [pc |-> "embed", package |-> WithStatus(l, 1)]
  /\ processed' = processed + 1
  /\ UNCHANGED <<jsonFiles, collection, packages_dict, importPc, json_file,
                 lineNo, packages_to_insert, take_backup_flag, runs, settled,
                 backup, backup_target, dbVars>>

\* lines 83-85: the embedding is back and the object is sent with no uuid,
\* or the embedding raises
ProcessEmbed ==
  /\ ImportSuspended
  /\ process.pc = "embed"
  /\ \E ok \in BOOLEAN :
       collection' =
         IF ok THEN collection \cup
                              {[uuid |-> Uuid4(processed),
                        properties |-> PropertiesOf(process.package)]}
               ELSE collection
  /\ process' = NoProcess
  /\ UNCHANGED <<jsonFiles, packages_dict, importPc, json_file, lineNo,
                 packages_to_insert, take_backup_flag, runs, settled, backup, backup_target,
                 processed, dbVars>>

\* lines 40-49: restore_backup is called by itself, between two runs or
\* while add_data stands at an await, and replaces the collection (a restore
\* that fails changes nothing)
RestoreBackup ==
  /\ ImportSuspended
  /\ backup.exists
  /\ collection' = backup.objects
  /\ settled' = SettledAfter(collection')
  /\ UNCHANGED <<jsonFiles, packages_dict, importPc, json_file, lineNo,
                 packages_to_insert, take_backup_flag, runs, backup, backup_target, process,
                 processed, dbVars>>

\* lines 51-67: take_backup is called by itself, between two runs or while
\* add_data stands at an await
TakeBackup ==
  /\ ImportSuspended
  /\ backup' \in BackupTaken(backup_target)
  /\ UNCHANGED <<jsonFiles, collection, backup_target, packages_dict, importPc,
                 json_file, lineNo, packages_to_insert, take_backup_flag, runs,
                 settled, process, processed, dbVars>>

NextImport ==
  \/ RunImport
  \/ AddData
  \/ AddDataStart
  \/ AddDataOpen
  \/ AddDataLine
  \/ AddDataEmbed
  \/ AddDataBatch
  \/ AddDataReturn
  \/ ProcessPackage
  \/ ProcessEmbed
  \/ RestoreBackup
  \/ TakeBackup

SpecImport == InitImport /\ [][NextImport]_vars

\* ------------------------------------------------------------------ claims
RecorderOps ==
  {"record_request", "record_output_stream", "record_output_non_stream",
   "record_alerts"}

Finished(o) == pc = "done" /\ result.op = o

\* the stream call has ended by the caller pulling until the generator ended
StreamConsumed ==
  Finished("record_output_stream") /\ result.outcome # "closed"

BatchRows == {batch[i] : i \in DOMAIN batch}

\* init_db_sync, called by another coroutine, has unlinked the store file
\* since the operation started
Unlinked == wiped # "no"
TasksIn(S) == {i \in DOMAIN tasks : tasks[i] \in S}

\* C1: with a prompt that is not None, a caller that consumes
\* record_output_stream to its end has received exactly the upstream chunks,
\* in order, whatever the terminal write did; the call makes at most one
\* Output INSERT attempt, and none when no chunk was observed.
C1_StreamPassThrough ==
  (StreamConsumed /\ argPrompt # None) =>
     /\ emitted = streamIn
     /\ attempts <= 1
     /\ (attempts = 1 => Len(streamIn) >= 1)

\* C2: when record_alerts has returned for a batch of N alerts of which K
\* failed insertion, it has not raised, no task was cancelled and exactly
\* N-K rows of the batch are in the store (as long as no init_db_sync has
\* unlinked the store file since); an empty batch makes no store operation.
C2_AlertBatchIsolation ==
  Finished("record_alerts") =>
     /\ result.outcome # "raised"
     /\ TasksIn({"cancelled"}) = {}
     /\ Cardinality(wrote) =
          Len(batch) - Cardinality(TasksIn({"failed", "not_inserted"}))
     /\ (Unlinked \/ wrote \subseteq alerts)
     /\ (batch = <<>> => attempts = 0)

\* C3: no public Recorder operation ends with an exception reaching its
\* caller.
C3_NeverRaises ==
  (pc = "done" /\ result.op \in RecorderOps) => result.outcome # "raised"

\* C4: when the caller has abandoned the stream after receiving at least one
\* chunk and before the upstream was exhausted, an Output INSERT for the
\* buffered chunks has been attempted.
C4_AbandonFlushes ==
  (Finished("record_output_stream") /\ result.outcome = "closed"
     /\ argPrompt # None /\ Len(emitted) >= 1 /\ upstream # <<>>) =>
        attempts >= 1

\* C5: with prompt None, record_output_non_stream returns None without any
\* store write, and record_output_stream consumed to its end has made no
\* store write and has emitted every upstream chunk in order.
C5_NonePromptNoWrites ==
  /\ (Finished("record_output_non_stream") /\ argPrompt = None) =>
        (result.outcome = "none" /\ attempts = 0)
  /\ (StreamConsumed /\ argPrompt = None) =>
        (attempts = 0 /\ emitted = streamIn)

\* C6: a chunk is in the buffer only after it has been emitted to the caller
\* (emit-then-append), and the Output INSERT comes after every emission.
C6_EmitThenAppend ==
  /\ Len(output_chunks) <= Len(emitted)
  /\ (attempts >= 1 /\ helper.op = "record_output_stream") => emitted = streamIn

\* a bootstrap has ended
BootstrapOps == {"init_db", "init_db_sync"}

\* C7: a bootstrap that failed leaves none of its statements' effects in the
\* store, so a bootstrap that skips finds the whole schema.
C7_InitAllOrNothing ==
  /\ (pc = "done" /\ result.op \in BootstrapOps /\ result.outcome = "raised") =>
        tables = {}
  /\ (pc = "done" /\ result.op \in BootstrapOps /\ result.outcome = "skipped") =>
        tables = {Schema[s] : s \in Statements}

\* a construction or an init_db call starts on a store that exists
BootstrapOnExisting ==
  /\ pc = "idle"
  /\ dbExists
  /\ initCall'.by \in {"ctor", "call"}

\* the caller's bootstrap executes its next DDL statement, with success
DdlStep ==
  pc = "init_exec" /\ initCall'.ddl = initCall.ddl + 1 /\ ~initCall'.failed

\* C8: a bootstrap (constructor or init_db) that starts on an existing store
\* ends at once, having executed no DDL statement and having left the
\* tables and rows as they were; and a bootstrap beside which no other
\* init_db call is in flight executes a DDL statement only on a store file
\* on which that statement was not executed before.
C8_BootstrapIdempotent ==
  /\ [](initCall.onExisting => initCall.ddl = 0)
  /\ [][BootstrapOnExisting =>
          /\ pc' = "done"
          /\ result'.outcome = "skipped"
          /\ UNCHANGED <<tables, ddlRuns, storeVars>>]_vars
  /\ [][(DdlStep /\ initCall.alone) =>
          /\ ddlRuns[initCall.next] = 0
          /\ ddlRuns'[initCall.next] = 1]_vars

\* a bootstrap has skipped on a store that holds rows, after the schema was
\* applied once
C8_Witness ==
  /\ Finished("init_db")
  /\ result.outcome = "skipped"
  /\ initCall.onExisting
  /\ prompts # {}
  /\ \A s \in Statements : ddlRuns[s] = 1

\* C9: every Output row and every Alert row carries the id of a Prompt row
\* that is in the store.
C9_ReferentialIntegrity ==
  /\ \A o \in outputs : \E p \in prompts : p.id = o.prompt_id
  /\ \A a \in alerts : \E p \in prompts : p.id = a.prompt_id

\* C10: no two Output rows carry the same prompt_id.
C10_OneOutputPerPrompt ==
  \A a, b \in outputs : a.prompt_id = b.prompt_id => a = b

\* C11: when a Reader operation has returned or failed, the connection it
\* acquired is not open.
C11_ReaderReleases ==
  (pc = "done" /\ result.op \in ReaderOps) => readConn.state # "open"

\* the request of the finished record_request could be serialized
RequestSerialized ==
  /\ argRequest # None
  /\ ~SerializeRaises(argRequest.normalized_request)
  /\ SerializeStr(argRequest.normalized_request) # None

\* what C12 asks of the returned Prompt p: it is the one row the call has
\* written, it is the one row of the store with its id (as long as no
\* init_db_sync has unlinked the store file since), and it carries the
\* call's arguments
ReturnedPromptIsTheNewRow(p) ==
  /\ wrote = {p}
  /\ (Unlinked \/ {q \in prompts : q.id = p.id} = {p})
  /\ p.request = SerializeStr(argRequest.normalized_request)
  /\ p.provider = argRequest.provider_str
  /\ p.type = IF argRequest.is_fim_request THEN "fim" ELSE "chat"

\* C12 as stated: for a serializable request, once the store has accepted the
\* insert (the Prompt row is written), record_request has persisted exactly
\* one new row and has returned it as a Prompt with the fresh id, the
\* serialized request text, the given provider and the type fim or chat.
C12_AcceptedInsertReturnsPrompt ==
  (Finished("record_request") /\ RequestSerialized /\ wrote # {}) =>
     /\ result.outcome = "record"
     /\ ReturnedPromptIsTheNewRow(result.value)

\* C12 amended: for a serializable request, when the store has accepted the
\* insert and the returned row was decoded, so that record_request returns a
\* Prompt, exactly one new Prompt row is persisted and the returned Prompt is
\* that row: fresh id, request equal to the serialized text, the given
\* provider, type fim when is_fim_request and chat otherwise.  A written row
\* whose decoding failed is one new row too, with none returned.  The row is
\* in the store as long as no init_db_sync has unlinked the store file.
C12_ReturnedPromptIsPersisted ==
  /\ (Finished("record_request") /\ result.outcome = "record") =>
        (RequestSerialized /\ ReturnedPromptIsTheNewRow(result.value))
  /\ Finished("record_request") =>
        (Cardinality(wrote) <= 1 /\ (Unlinked \/ wrote \subseteq prompts))

\* a fim request was recorded and returned as the second Prompt of the store
C12_Witness ==
  /\ Finished("record_request")
  /\ result.outcome = "record"
  /\ argRequest.is_fim_request
  /\ prompts # wrote

\* the JSON string v (the JSON object {"chunk": v} is [chunk |-> v])
JsonString(v) == [string |-> v]

\* the payload C13 describes: a plain chunk recorded as that string
ArrayOfPlainStrings(chunks) ==
  [json |-> [i \in DOMAIN chunks |->
               IF chunks[i].kind = "model" THEN [model_dump |-> chunks[i].v]
               ELSE IF chunks[i].kind = "dict" THEN [dict |-> chunks[i].v]
               ELSE JsonString(chunks[i].v)]]

\* the stream was consumed to its end and its Output row was written
StreamRecorded ==
  StreamConsumed /\ Len(emitted) >= 1 /\ wrote # {}

\* C13: after record_output_stream was fully consumed for n >= 1 chunks and
\* the insert succeeded, the single Output row is linked to prompt.id and its
\* payload is the JSON array of the n emitted chunks in order, a plain
\* string chunk recorded as that string (the row being in the store as long
\* as no init_db_sync has unlinked the store file).
C13_PlainChunkRecordedAsString ==
  StreamRecorded =>
    \E row \in wrote :
       /\ wrote = {row}
       /\ (Unlinked \/ row \in outputs)
       /\ row.prompt_id = argPrompt.id
       /\ row.output = ArrayOfPlainStrings(emitted)

\* the store file is unlinked by this step (line 248 of init_db_sync)
UnlinkStep == dbExists /\ ~dbExists'

\* C14: every step of the Recorder and of the Reader, of the caller and of
\* the second coroutine (and every step of the bootstrap but the unlink of
\* init_db_sync), leaves each Prompt, Output and Alert row that was in the
\* store in it, unchanged, whether the step succeeds or fails.
C14_AppendOnly ==
  [][~UnlinkStep =>
       /\ prompts \subseteq prompts'
       /\ outputs \subseteq outputs'
       /\ alerts \subseteq alerts']_vars

\* a Recorder operation has written a row and returned none, over a store
\* that held another row
C14_Witness ==
  /\ Finished("record_request")
  /\ result.outcome = "none"
  /\ wrote # {}
  /\ ~Unlinked
  /\ prompts # wrote

\* a record_output_stream generator is live
InStream ==
  \/ pc \in {"gen_suspended", "gen_yield", "gen_drained"}
  \/ pc \in {"ins_begin", "ins_execute", "ins_exit"}
       /\ helper.op = "record_output_stream"

\* the accumulator's place on STREAMING (0) -> DRAINED (1) -> FLUSHED or
\* ended (2)
AccRank(at) ==
  IF at \in {"gen_suspended", "gen_yield"} THEN 0
  ELSE IF at = "gen_drained" THEN 1
  ELSE 2

\* C15: every step of a live stream moves the accumulator forward or leaves
\* it; it is DRAINED only when the upstream has no chunk left; the Output
\* write is attempted only from DRAINED; and from DRAINED on no chunk is
\* emitted.
C15_AccumulatorForward ==
  [][InStream =>
       /\ AccRank(pc') >= AccRank(pc)
       /\ (pc' = "gen_drained" => upstream' = <<>>)
       /\ (attempts' # attempts => (pc = "gen_drained" /\ upstream = <<>>))
       /\ (AccRank(pc) >= 1 => emitted' = emitted)]_vars

\* a stream of two chunks was emitted, drained and flushed
C15_Witness ==
  /\ Finished("record_output_stream")
  /\ result.outcome = "exhausted"
  /\ attempts = 1
  /\ Len(emitted) = 2
  /\ upstream = <<>>

\* the connections the holder i has
HeldBy(i) == {l.conn : l \in {m \in leases : m.task = i}}

\* the task stands inside its async with engine.begin() block
InBlock(st) == st \in {"executing", "exit_inserted", "exit_none"}

\* C16: in record_alerts no connection (and so no transaction, which lives on
\* its connection) is held by two tasks, nor by a task and another
\* coroutine; a task inside its transaction holds exactly one connection; a
\* task that has not entered it or has ended, on success, on insert failure
\* or by cancellation, holds none.
C16_OwnConnection ==
  /\ \A l, m \in leases : l.conn = m.conn => l.task = m.task
  /\ \A l \in leases : l.task \in DOMAIN tasks \cup {Caller, Other}
  /\ \A i \in DOMAIN tasks :
       Cardinality(HeldBy(i)) = IF InBlock(tasks[i]) THEN 1 ELSE 0

\* two tasks are inside their transactions at once, one of them with its row
\* written, while the second coroutine is inside its own
C16_Witness ==
  /\ pc = "tg_join"
  /\ HeldBy(Other) # {}
  /\ \E i, j \in DOMAIN tasks :
       /\ i # j
       /\ tasks[i] = "executing"
       /\ tasks[j] = "exit_inserted"
       /\ HeldBy(i) # HeldBy(j)

\* C17: the store of a DbCodeGate constructed with a non-empty sqlite_path is
\* the one at that path, and the default path is used when no path is given.
C17_PathOverride ==
  (pc # "idle" /\ result.op = "init_db" /\ recorder) =>
     dbPath = IF initCall.sqlite_path = NoPath THEN DefaultPath
                                               ELSE initCall.sqlite_path

\* every object carries the hash of its content as its id, as add_data sends
\* it
ContentKeyed(objects) == \A o \in objects : "uuid5" \in DOMAIN o.uuid

\* C18: in a collection whose ids are the hashes add_data computes, no two
\* objects have the same name, type, status and description; and once a run
\* of add_data has completed, a later run on the same files sends no batch
\* that changes such a collection.
C18_ReimportIdempotent ==
  /\ [](ContentKeyed(collection) =>
          \A o, n \in collection : o.properties = n.properties => o = n)
  /\ [][(importPc = "batch" /\ settled /\ ContentKeyed(collection)) =>
          collection' = collection]_vars

\* the record r is a row the call has written, the only one with its id
WrittenOnce(r) == {q \in wrote : q.id = r.id} = {r}

\* the record r is in the rows now of its table, the only one with its id
PresentOnce(r, now) == {q \in now : q.id = r.id} = {r}

\* the store file was unlinked only after the operation had returned
UnlinkedLater == wiped = "returned"

\* C19 as stated: when record_request or record_output_non_stream (and with
\* them the insert helper, whose result they return) has returned a record,
\* the call has inserted exactly one row with that record's id and the row
\* is in the store when the call returns.
C19_RecordProvesWrite ==
  /\ (Finished("record_request") /\ result.outcome = "record") =>
        /\ WrittenOnce(result.value)
        /\ (UnlinkedLater \/ PresentOnce(result.value, prompts))
  /\ (Finished("record_output_non_stream") /\ result.outcome = "record") =>
        /\ WrittenOnce(result.value)
        /\ (UnlinkedLater \/ PresentOnce(result.value, outputs))
  /\ (pc = "ins_exit" /\ helper.ret # None) =>
        /\ WrittenOnce(helper.ret)
        /\ PresentOnce(helper.ret, TableRows(helper.tbl))

\* C19 amended: when record_request or record_output_non_stream (and with
\* them the insert helper) has returned a record, the call has inserted
\* exactly one row with that record's id; the row is in the store when the
\* call returns unless init_db_sync, called by another coroutine, has
\* unlinked the store file after the insert.
C19_RecordProvesInsert ==
  /\ (Finished("record_request") /\ result.outcome = "record") =>
        /\ WrittenOnce(result.value)
        /\ (Unlinked \/ PresentOnce(result.value, prompts))
  /\ (Finished("record_output_non_stream") /\ result.outcome = "record") =>
        /\ WrittenOnce(result.value)
        /\ (Unlinked \/ PresentOnce(result.value, outputs))
  /\ (pc = "ins_exit" /\ helper.ret # None) =>
        /\ WrittenOnce(helper.ret)
        /\ (Unlinked \/ PresentOnce(helper.ret, TableRows(helper.tbl)))

\* record_output_non_stream has returned the second Output of the store
C19_Witness ==
  /\ Finished("record_output_non_stream")
  /\ result.outcome = "record"
  /\ ~Unlinked
  /\ outputs # wrote


\* C20: when record_alerts has ended for a batch of N alerts, it had launched
\* N tasks (none for an empty batch) and none of them is still in flight;
\* when it has returned rather than raised, each task has ended with its row
\* inserted (and in the store as long as no init_db_sync has unlinked the
\* store file) or with its insert failure handled inside the helper.
C20_JoinPoint ==
  Finished("record_alerts") =>
     /\ Len(tasks) = Len(batch)
     /\ \A i \in DOMAIN tasks : tasks[i] \notin TaskLive
     /\ result.outcome # "raised" =>
          \A i \in DOMAIN tasks :
             \/ /\ tasks[i] = "inserted"
                /\ batch[i] \in wrote
                /\ (Unlinked \/ batch[i] \in alerts)
             \/ tasks[i] = "not_inserted"

\* record_alerts has returned for two alerts, one inserted and one whose
\* insert failed
C20_Witness ==
  /\ Finished("record_alerts")
  /\ result.outcome # "raised"
  /\ Len(batch) = 2
  /\ \E i, j \in DOMAIN tasks :
       tasks[i] = "inserted" /\ tasks[j] = "not_inserted"

====
